---- MODULE Spec2Model ----
(***************************************************************************)
(* Model of the BarChart container of react-charts-d3                      *)
(* (src/components/BarChart/BarChart.js).                                  *)
(*                                                                         *)
(* A chart instance is a React PureComponent: it has props (set by the     *)
(* host), a local state {data, width, color}, a container element whose    *)
(* offsetWidth it measures, and the output of its last render.  Outside    *)
(* the instances there are two pieces of browser/library state the code    *)
(* writes: the window's list of resize listeners and the callback slot of  *)
(* the 'legendClick' type on the default eventDispatcher, which is one     *)
(* d3-dispatch object created once in the static defaultProps.             *)
(*                                                                         *)
(* Modelling conventions.                                                  *)
(*  - A series is [key, disabled]; its points do not influence any         *)
(*    decision taken in BarChart.js.                                       *)
(*  - The data prop is [given, value]: given = FALSE is undefined/null.    *)
(*  - Arrays are identified by value, so a setState whose merged state is  *)
(*    equal to the current one is a PureComponent no-op (no render).       *)
(*  - props.eventDispatcher is the default one for every instance.         *)
(*  - setState outside a React batch is synchronous: the render it causes  *)
(*    is part of the action that called it.  setState in componentDidMount *)
(*    is batched: the renders it causes run after every componentDidMount  *)
(*    of the tree being mounted (Mount: a tree of one chart; MountTree: a  *)
(*    tree of several).                                                    *)
(***************************************************************************)
EXTENDS Integers, Sequences, FiniteSets, TLC

\* Bounds of the model.
MaxSeries == 3
MaxWidth == 2

\* The chart instances the host may create.  Spec drives only Primary;
\* SpecShared drives both.
Insts == {"A", "B"}
Primary == "A"
None == "none"

VARIABLES status, props, state, offsetWidth, rendered,
          resizeListeners, legendClickHandler, staleSetState, lastOp

vars == <<status, props, state, offsetWidth, rendered,
          resizeListeners, legendClickHandler, staleSetState, lastOp>>

-----------------------------------------------------------------------------
\* Data values

Series(k) == [key |-> k, disabled |-> FALSE]

\* The first n series, in key order.
Prefix(n) == [j \in 1..n |-> Series(j)]

\* The n series in descending key order.
Reversed(n) == [j \in 1..n |-> Series(n + 1 - j)]

\* Arrays a host passes as the data prop: none, all series, all in another order.
DataArrays == {Prefix(0), Prefix(MaxSeries), Reversed(MaxSeries)}

Given(arr) == [given |-> TRUE, value |-> arr]
Absent == [given |-> FALSE, value |-> <<>>]

DataProps == {Given(arr) : arr \in DataArrays} \cup {Absent}

\* Every array with any combination of disabled flags: what a legend can emit.
Flagged(arr) ==
  {[j \in 1..Len(arr) |-> [key |-> arr[j].key, disabled |-> f[j]]] :
      f \in [1..Len(arr) -> BOOLEAN]}

Payloads == UNION {Flagged(arr) : arr \in DataArrays}

ConfigWidths == 1..MaxWidth
ContainerWidths == 0..MaxWidth

\* The props a chart is created with (useColorScale at its default).
PropChoices ==
  [data : DataProps, width : ConfigWidths, fluid : BOOLEAN, useColorScale : {TRUE}]

\* The props a host passes on an update: one prop differs from the current ones.
PropChanges(cur) ==
  {[cur EXCEPT !.data = d] : d \in DataProps}
    \cup {[cur EXCEPT !.width = w] : w \in ConfigWidths}
    \cup {[cur EXCEPT !.fluid = ~@], [cur EXCEPT !.useColorScale = ~@]}

\* The leaner inputs of the two-instance specification.
SharedPropChoices ==
  [data : {Given(Prefix(1)), Given(Prefix(2))}, width : {MaxWidth},
   fluid : BOOLEAN, useColorScale : {TRUE}]

\* The props of the charts of one tree: those, or the data prop missing.
TreePropChoices ==
  SharedPropChoices
    \cup [data : {Absent}, width : {MaxWidth}, fluid : BOOLEAN, useColorScale : {TRUE}]

\* The props slot of an instance that does not exist yet or any more.
NoProps == [data |-> Absent, width |-> 1, fluid |-> TRUE, useColorScale |-> TRUE]

-----------------------------------------------------------------------------
\* Pure parts of the component

\* `() => undefined`, the placeholder color function of the initial state.
UndefinedColor == [defined |-> FALSE, n |-> 0, gradient |-> FALSE]

\* scales.calculateColorScale(length, useColorScale, colorScale, colorSchemeCategory):
\* the scale is identified by the data length and configuration it was resolved for.
calculateColorScale(n, useColorScale) ==
  [defined |-> TRUE, n |-> n, gradient |-> useColorScale]

\* The class field initialiser `state = {...}`.
InitialState(p) ==
  [data  |-> IF p.data.given THEN p.data.value ELSE <<>>,
   width |-> IF p.fluid THEN 0 ELSE p.width,
   color |-> UndefinedColor]

RECURSIVE FilterEnabledRev(_)
FilterEnabledRev(data) ==
  IF data = <<>> THEN <<>>
  ELSE IF data[1].disabled THEN FilterEnabledRev(Tail(data))
       ELSE Append(FilterEnabledRev(Tail(data)), data[1])

FilterKeepAll(data) == data

\* data.filter(d => !d.disabled)
RECURSIVE FilterEnabled(_)
FilterEnabled(data) ==
  IF data = <<>> THEN <<>>
  ELSE IF data[1].disabled THEN FilterEnabled(Tail(data))
       ELSE <<data[1]>> \o FilterEnabled(Tail(data))

ChildrenByEnabled(data) ==
  IF Len(FilterEnabled(data)) = 0 THEN <<"NoData", "0">> ELSE <<"Legend", "Axis", "Bars">>

\* The children of <svg>: `!data.length && <NoData/>` followed by
\* `data.length && <g className="wrapper">...`.  React drops `false`; the
\* number 0 that the second expression yields for empty data is kept as the
\* text node "0".
Children(data) ==
  IF Len(data) = 0 THEN <<"NoData", "0">> ELSE <<"Legend", "Axis", "Bars">>

\* What one call of render() produces: the arguments handed to
\* chart.calculateChartValues and chart.mapSeriesToData and the element tree.
RenderOut(st) ==
  [children    |-> Children(st.data),
   layoutData  |-> FilterEnabled(st.data),
   layoutWidth |-> st.width,
   mappedData  |-> st.data,
   legendData  |-> IF Len(st.data) = 0 THEN <<>> ELSE st.data]

NoRender ==
  [children |-> <<>>, layoutData |-> <<>>, layoutWidth |-> 0,
   mappedData |-> <<>>, legendData |-> <<>>]

UpdateDimensionsNoFallback(st, p, measured) ==
  IF p.fluid THEN [st EXCEPT !.width = measured] ELSE st

\* updateDimensions: the state after it ran with the container measuring `measured`.
UpdateDimensions(st, p, measured) ==
  IF p.fluid
    THEN [st EXCEPT !.width = IF measured # 0 THEN measured ELSE p.width]
    ELSE st

LegendClickResetsWidth(st, d) == [st EXCEPT !.data = d, !.width = 0]

\* d => this.setState({ data: d })
OnLegendClick(st, d) == [st EXCEPT !.data = d]

\* The payload of a legend click on series k: the legend's data with that
\* series' disabled flag flipped.
Toggle(data, k) == [data EXCEPT ![k].disabled = ~@]

Range(s) == {s[j] : j \in 1..Len(s)}

Remove(s, e) == SelectSeq(s, LAMBDA x : x # e)

-----------------------------------------------------------------------------
Init ==
  /\ status = [i \in Insts |-> "new"]
  /\ props = [i \in Insts |-> NoProps]
  /\ state = [i \in Insts |-> InitialState(NoProps)]
  /\ offsetWidth = [i \in Insts |-> 0]
  /\ rendered = [i \in Insts |-> NoRender]
  /\ resizeListeners = <<>>
  /\ legendClickHandler = None
  /\ staleSetState = {}
  /\ lastOp = [op |-> "init", inst |-> None]

-----------------------------------------------------------------------------
\* Operations

Mounted(i) == status[i] = "mounted"

\* The listener that rendered last during one resize event, if any did:
\* every render re-registers the legendClick callback in updateChart.
RECURSIVE LastRenderer(_, _, _)
LastRenderer(listeners, changed, current) ==
  IF listeners = <<>> THEN current
  ELSE LastRenderer(Tail(listeners), changed,
                    IF listeners[1] \in changed THEN listeners[1] ELSE current)

\* One chart mounted on its own (a tree of one): construction,
\* componentWillMount, the first render, componentDidMount and the render
\* its setState asks for.
\* componentWillMount reads this.props.data.length: with the data prop absent
\* it throws a TypeError and the instance never renders.
Mount(i, p, cw) ==
  /\ status[i] = "new"
  /\ props' = [props EXCEPT ![i] = p]
  /\ lastOp' = [op |-> "mount", inst |-> i]
  /\ UNCHANGED staleSetState
  /\ IF ~p.data.given
       THEN /\ status' = [status EXCEPT ![i] = "error"]
            /\ state' = [state EXCEPT ![i] = InitialState(p)]
            /\ UNCHANGED <<offsetWidth, rendered, resizeListeners, legendClickHandler>>
       ELSE LET st1 == [InitialState(p) EXCEPT
                          !.color = calculateColorScale(Len(p.data.value), p.useColorScale)]
                st2 == UpdateDimensions(st1, p, cw)
            IN /\ status' = [status EXCEPT ![i] = "mounted"]
               /\ offsetWidth' = [offsetWidth EXCEPT ![i] = cw]
               /\ resizeListeners' = Append(resizeListeners, i)
               /\ state' = [state EXCEPT ![i] = st2]
               /\ rendered' = [rendered EXCEPT ![i] = RenderOut(st2)]
               /\ legendClickHandler' = i

\* The orders in which one tree can hold all the charts.
TreeOrders == {o \in [1..Cardinality(Insts) -> Insts] : Range(o) = Insts}

\* The position of the first chart of the tree whose data prop is absent, or 0.
FirstAbsent(order, ps) ==
  LET bad == {k \in 1..Len(order) : ~ps[order[k]].data.given}
  IN IF bad = {} THEN 0 ELSE CHOOSE k \in bad : \A m \in bad : k <= m

\* Several charts mounted by one render of their parent.  React constructs
\* and renders them in tree order (each render writes the legendClick
\* callback), commits, runs every componentDidMount in tree order, and only
\* then runs the renders that the setState calls of updateDimensions asked
\* for, again in tree order.  A chart whose data prop is absent throws in
\* componentWillMount: nothing of the tree is committed, but the charts
\* before it have already run componentWillMount (their state holds the
\* color scale) and render; the failing chart keeps its initial state.
MountTree(order, ps, cws) ==
  /\ \A i \in Range(order) : status[i] = "new"
  /\ lastOp' = [op |-> "mountTree", inst |-> None]
  /\ UNCHANGED staleSetState
  /\ LET f == FirstAbsent(order, ps)
         st1(i) == [InitialState(ps[i]) EXCEPT
                      !.color = calculateColorScale(Len(ps[i].data.value),
                                                    ps[i].useColorScale)]
         st2(i) == UpdateDimensions(st1(i), ps[i], cws[i])
         changed == {i \in Range(order) : st2(i) # st1(i)}
         built == {order[k] : k \in 1..f}
     IN IF f = 0
          THEN /\ status' = [i \in Insts |->
                               IF i \in Range(order) THEN "mounted" ELSE status[i]]
               /\ props' = [i \in Insts |->
                              IF i \in Range(order) THEN ps[i] ELSE props[i]]
               /\ offsetWidth' = [i \in Insts |->
                                    IF i \in Range(order) THEN cws[i] ELSE offsetWidth[i]]
               /\ resizeListeners' = resizeListeners \o order
               /\ state' = [i \in Insts |->
                              IF i \in Range(order) THEN st2(i) ELSE state[i]]
               /\ rendered' = [i \in Insts |->
                                 IF i \in Range(order) THEN RenderOut(st2(i))
                                                       ELSE rendered[i]]
               /\ legendClickHandler' =
                    LastRenderer(order, changed, order[Len(order)])
          ELSE /\ status' = [i \in Insts |->
                               IF i \in built THEN "error" ELSE status[i]]
               /\ props' = [i \in Insts |-> IF i \in built THEN ps[i] ELSE props[i]]
               /\ state' = [i \in Insts |->
                              IF i = order[f] THEN InitialState(ps[i])
                              ELSE IF i \in built THEN st1(i)
                              ELSE state[i]]
               /\ legendClickHandler' =
                    IF f > 1 THEN order[f - 1] ELSE legendClickHandler
               /\ UNCHANGED <<offsetWidth, rendered, resizeListeners>>

\* componentWillUnmount: only the resize listener is removed; the callback
\* registered on the eventDispatcher stays.  React clears the refs, removes
\* the elements and never reads the instance's props and state again, so
\* they are dropped here.
Unmount(i) ==
  /\ Mounted(i)
  /\ status' = [status EXCEPT ![i] = "unmounted"]
  /\ resizeListeners' = Remove(resizeListeners, i)
  /\ offsetWidth' = [offsetWidth EXCEPT ![i] = 0]
  /\ rendered' = [rendered EXCEPT ![i] = NoRender]
  /\ props' = [props EXCEPT ![i] = NoProps]
  /\ state' = [state EXCEPT ![i] = InitialState(NoProps)]
  /\ lastOp' = [op |-> "unmount", inst |-> i]
  /\ UNCHANGED <<legendClickHandler, staleSetState>>

\* The host re-renders the chart with new props.  The component has no
\* componentWillReceiveProps / componentDidUpdate: render() runs again on the
\* unchanged state, and updateChart re-registers the callbacks.
SetProps(i, p) ==
  /\ Mounted(i)
  /\ p # props[i]
  /\ props' = [props EXCEPT ![i] = p]
  /\ rendered' = [rendered EXCEPT ![i] = RenderOut(state[i])]
  /\ legendClickHandler' = i
  /\ lastOp' = [op |-> "setProps", inst |-> i]
  /\ UNCHANGED <<status, state, offsetWidth, resizeListeners, staleSetState>>

\* The layout engine gives the container element a new width.
ContainerResize(i, w) ==
  /\ Mounted(i)
  /\ w # offsetWidth[i]
  /\ offsetWidth' = [offsetWidth EXCEPT ![i] = w]
  /\ lastOp' = [op |-> "containerResize", inst |-> i]
  /\ UNCHANGED <<status, props, state, rendered, resizeListeners,
                 legendClickHandler, staleSetState>>

\* A window 'resize' event: every registered updateDimensions runs, in
\* registration order; an instance whose state changed renders again.
WindowResize ==
  /\ resizeListeners # <<>>
  /\ LET upd(i) == UpdateDimensions(state[i], props[i], offsetWidth[i])
         changed == {i \in Range(resizeListeners) : upd(i) # state[i]}
     IN /\ state' = [i \in Insts |-> IF i \in changed THEN upd(i) ELSE state[i]]
        /\ rendered' = [i \in Insts |->
                          IF i \in changed THEN RenderOut(upd(i)) ELSE rendered[i]]
        /\ legendClickHandler' = LastRenderer(resizeListeners, changed, legendClickHandler)
  /\ lastOp' = [op |-> "resize", inst |-> None]
  /\ UNCHANGED <<status, props, offsetWidth, resizeListeners, staleSetState>>

\* eventDispatcher.call('legendClick', _, d): the one registered callback runs.
\* setState on an unmounted component changes nothing (React warns).
DispatchLegendClick(d) ==
  LET h == legendClickHandler
  IN IF h = None
       THEN UNCHANGED <<state, rendered, staleSetState>>
       ELSE IF Mounted(h)
         THEN /\ state' = [state EXCEPT ![h] = OnLegendClick(state[h], d)]
              /\ rendered' = [rendered EXCEPT ![h] = RenderOut(OnLegendClick(state[h], d))]
              /\ UNCHANGED staleSetState
         ELSE /\ staleSetState' = staleSetState \cup {h}
              /\ UNCHANGED <<state, rendered>>

\* The user clicks entry k of the legend instance i rendered.
LegendToggle(i, k) ==
  /\ Mounted(i)
  /\ k \in 1..Len(rendered[i].legendData)
  /\ DispatchLegendClick(Toggle(rendered[i].legendData, k))
  /\ lastOp' = [op |-> "legendToggle", inst |-> i]
  /\ UNCHANGED <<status, props, offsetWidth, resizeListeners, legendClickHandler>>

\* A legendClick with an arbitrary payload (host code calling the dispatcher).
LegendClick(d) ==
  /\ legendClickHandler # None
  /\ DispatchLegendClick(d)
  /\ lastOp' = [op |-> "legendClick", inst |-> legendClickHandler]
  /\ UNCHANGED <<status, props, offsetWidth, resizeListeners, legendClickHandler>>

BarEvents == {"barClick", "barMouseOver", "barMouseOut"}

\* barClick / barMouseOver / barMouseOut from the bars of instance i: the
\* registered callbacks are `() => {}`.
BarEvent(i, e) ==
  /\ Mounted(i)
  /\ "Bars" \in Range(rendered[i].children)
  /\ lastOp' = [op |-> e, inst |-> i]
  /\ UNCHANGED <<status, props, state, offsetWidth, rendered, resizeListeners,
                 legendClickHandler, staleSetState>>

-----------------------------------------------------------------------------
\* One chart, every input.
Next ==
  \/ \E p \in PropChoices, cw \in ContainerWidths : Mount(Primary, p, cw)
  \/ Unmount(Primary)
  \/ \E p \in PropChanges(props[Primary]) : SetProps(Primary, p)
  \/ \E w \in ContainerWidths : ContainerResize(Primary, w)
  \/ WindowResize
  \/ \E k \in 1..MaxSeries : LegendToggle(Primary, k)
  \/ \E d \in DataArrays : LegendClick(d)
  \/ \E e \in BarEvents : BarEvent(Primary, e)

Spec == Init /\ [][Next]_vars

\* One chart driven only by its own legend, the window and the container.
NextToggle ==
  \/ \E p \in PropChoices, cw \in ContainerWidths : Mount(Primary, p, cw)
  \/ Unmount(Primary)
  \/ \E w \in ContainerWidths : ContainerResize(Primary, w)
  \/ WindowResize
  \/ \E k \in 1..MaxSeries : LegendToggle(Primary, k)
  \/ \E e \in BarEvents : BarEvent(Primary, e)

SpecToggle == Init /\ [][NextToggle]_vars

\* Two charts on one page, both with the default eventDispatcher.
NextShared ==
  \/ \E i \in Insts, p \in SharedPropChoices, cw \in ContainerWidths : Mount(i, p, cw)
  \/ /\ \A i \in Insts : status[i] = "new"
     /\ \E order \in TreeOrders, ps \in [Insts -> TreePropChoices],
           cws \in [Insts -> ContainerWidths] : MountTree(order, ps, cws)
  \/ \E i \in Insts : Unmount(i)
  \/ \E i \in Insts, w \in ContainerWidths : ContainerResize(i, w)
  \/ WindowResize
  \/ \E i \in Insts, k \in 1..MaxSeries : LegendToggle(i, k)
  \/ \E i \in Insts, e \in BarEvents : BarEvent(i, e)

SpecShared == Init /\ [][NextShared]_vars

-----------------------------------------------------------------------------
\* Properties

Components == {"NoData", "Legend", "Axis", "Bars"}

\* The component elements instance i rendered (text nodes left out).
Shown(i) == Range(rendered[i].children) \cap Components

\* The index of the series with key `key` in data.
Pos(data, key) == CHOOSE k \in 1..Len(data) : data[k].key = key

\* updateDimensions has just run for instance i: at the end of its mount
\* or in the window resize event handled last.
DimensionsHandled(i) ==
  \/ lastOp.op = "mount" /\ lastOp.inst = i
  \/ lastOp.op = "mountTree"
  \/ lastOp.op = "resize"

\* C1: every render of a mounted chart shows either the NoData placeholder
\* alone (state.data empty) or the Legend, Axis and Bars (state.data
\* non-empty, also when every series is disabled), never a mix.
C1_VisualStateByEmptiness ==
  \A i \in Insts : Mounted(i) =>
    IF Len(state[i].data) = 0
      THEN Shown(i) = {"NoData"}
      ELSE Shown(i) = {"Legend", "Axis", "Bars"}

C1_Witness ==
  /\ Mounted(Primary)
  /\ Len(state[Primary].data) = MaxSeries
  /\ \A k \in 1..MaxSeries : state[Primary].data[k].disabled
  /\ Shown(Primary) = {"Legend", "Axis", "Bars"}

\* C2: a chart created with the data prop absent or empty finishes mounting
\* and shows the NoData placeholder.
C2_AbsentOrEmptyDataMounts ==
  \A i \in Insts :
    (/\ lastOp.op = "mount" /\ lastOp.inst = i
     /\ (~props[i].data.given \/ props[i].data.value = <<>>))
    => (Mounted(i) /\ Shown(i) = {"NoData"})

\* C3 as stated: with fluid sizing on, after mount and after every handled
\* window resize, state.width is the container's offsetWidth, whatever it is.
C3_FluidWidthIsMeasured ==
  \A i \in Insts :
    (Mounted(i) /\ props[i].fluid /\ DimensionsHandled(i))
    => state[i].width = offsetWidth[i]

\* C3 amended: with fluid sizing on, after mount and after every handled
\* window resize, state.width is the container's offsetWidth when that is
\* not 0, and the configured width prop when it is 0.
C3_FluidWidthIsMeasuredOrConfigured ==
  \A i \in Insts :
    (Mounted(i) /\ props[i].fluid /\ DimensionsHandled(i))
    => state[i].width =
         IF offsetWidth[i] # 0 THEN offsetWidth[i] ELSE props[i].width

C3_Witness ==
  /\ Mounted(Primary) /\ props[Primary].fluid
  /\ lastOp.op = "resize"
  /\ offsetWidth[Primary] # 0
  /\ offsetWidth[Primary] # props[Primary].width
  /\ state[Primary].width = offsetWidth[Primary]
  /\ rendered[Primary].layoutWidth = offsetWidth[Primary]

\* C4: with fluid sizing off, state.width of a mounted chart is the
\* configured width prop, in every reachable state.
C4_FixedWidthIsConfigured ==
  \A i \in Insts :
    (Mounted(i) /\ ~props[i].fluid) => state[i].width = props[i].width

\* C5: under legend toggles every series stays at the position it has in the
\* original data, the series used for rendering are exactly those whose flag
\* is off, and they appear in the relative order of the original data.
C5_TogglesKeepOrder ==
  \A i \in Insts : Mounted(i) =>
    LET orig  == props[i].data.value
        cur   == state[i].data
        shown == rendered[i].layoutData
    IN /\ Len(cur) = Len(orig)
       /\ \A k \in 1..Len(cur) : cur[k].key = orig[k].key
       /\ {shown[j].key : j \in 1..Len(shown)}
            = {cur[k].key : k \in {n \in 1..Len(cur) : ~cur[n].disabled}}
       /\ \A a, b \in 1..Len(shown) :
            a < b => Pos(orig, shown[a].key) < Pos(orig, shown[b].key)

\* A series in the middle is toggled off and its neighbours are rendered.
C5_Witness ==
  /\ Mounted(Primary)
  /\ lastOp.op = "legendToggle"
  /\ props[Primary].data.value = Reversed(MaxSeries)
  /\ state[Primary].data[2].disabled
  /\ Len(rendered[Primary].layoutData) = MaxSeries - 1

\* C6: on every render with non-empty data the series handed to
\* calculateChartValues are exactly the series of state.data that are not
\* disabled.
C6_LayoutGetsEnabledSeries ==
  \A i \in Insts : (Mounted(i) /\ Len(state[i].data) # 0) =>
    LET d   == state[i].data
        arg == rendered[i].layoutData
    IN /\ \A j \in 1..Len(arg) :
            ~arg[j].disabled /\ \E k \in 1..Len(d) : d[k] = arg[j]
       /\ \A k \in 1..Len(d) :
            ~d[k].disabled => \E j \in 1..Len(arg) : arg[j] = d[k]
       /\ Len(arg) = Cardinality({k \in 1..Len(d) : ~d[k].disabled})

C6_Witness ==
  /\ Mounted(Primary)
  /\ Len(state[Primary].data) = MaxSeries
  /\ state[Primary].data[1].disabled
  /\ ~state[Primary].data[MaxSeries].disabled
  /\ Len(rendered[Primary].layoutData) \in 1..(MaxSeries - 1)

\* C7: after the host changed the props of a mounted chart, state.data and
\* state.color are the ones computed from the new props.
C7_PropsChangeRecomputesState ==
  \A i \in Insts :
    (lastOp.op = "setProps" /\ lastOp.inst = i) =>
      /\ state[i].data = InitialState(props[i]).data
      /\ state[i].color =
           calculateColorScale(Len(props[i].data.value), props[i].useColorScale)

\* C8: a legendClick with payload d sets state.data of the component whose
\* callback is registered to d and changes no width and no color; barClick,
\* barMouseOver and barMouseOut change no state at all.
C8_OnlyLegendClickChangesData ==
  [][ LET h == legendClickHandler
          Frame == \A i \in Insts : /\ state'[i].width = state[i].width
                                    /\ state'[i].color = state[i].color
                                    /\ i # h => state'[i].data = state[i].data
      IN /\ lastOp'.op \in BarEvents => state' = state
         /\ (lastOp'.op = "legendClick" /\ Mounted(h)) =>
              /\ \A d \in Payloads : LegendClick(d) => state'[h].data = d
              /\ Frame
         /\ (lastOp'.op = "legendToggle" /\ Mounted(h)) =>
              /\ \A k \in 1..MaxSeries :
                   LegendToggle(lastOp'.inst, k)
                     => state'[h].data = Toggle(rendered[lastOp'.inst].legendData, k)
              /\ Frame
    ]_vars

C8_Witness ==
  /\ Mounted(Primary)
  /\ lastOp.op = "legendClick"
  /\ props[Primary].data.value = Prefix(0)
  /\ state[Primary].data = Reversed(MaxSeries)
  /\ state[Primary].width = MaxWidth

\* C9: a legend click in one chart replaces the displayed data of that chart
\* and leaves the displayed data of every other chart unchanged.
C9_LegendClickStaysInInstance ==
  [][ lastOp'.op = "legendToggle" =>
        /\ state'[lastOp'.inst].data # state[lastOp'.inst].data
        /\ \A j \in Insts \ {lastOp'.inst} : state'[j].data = state[j].data
    ]_vars

\* C10: an unmounted chart has no resize listener left and never receives a
\* setState.
C10_NoUpdateAfterUnmount ==
  /\ staleSetState = {}
  /\ \A i \in Insts : status[i] = "unmounted" => i \notin Range(resizeListeners)
====
